---- MODULE Spec2Model ----
(***************************************************************************)
(* A model of the scalar math functions of @gamestdio/mathf (src/index.ts). *)
(* Every function is pure; the state machine records the last call made    *)
(* (fn, args, ret), the position of lerpAngle inside its two loops, and    *)
(* the value an animation loop keeps feeding back into moveTowards.        *)
(*                                                                         *)
(* Numbers: the integer functions are applied to integers that fit a       *)
(* signed 32-bit word, so JavaScript's ToInt32 leaves them unchanged and   *)
(* its bitwise operators act on their two's complement form.  round takes  *)
(* multiples of 0.5, which are represented by their double: the model      *)
(* integer h stands for the number h / 2.                                  *)
(***************************************************************************)
EXTENDS Integers, Sequences, FiniteSets

VARIABLES
    fn, args, ret,      \* the last call of a pure function and what it returned
    pc,                 \* lerpAngle: where the call stands
    angle_a, angle_b, angle_t,   \* lerpAngle: its locals a, b and t
    angle_b0,           \* lerpAngle: b as it was passed in
    angle_ret,          \* lerpAngle: the value returned
    mt_current, mt_target, mt_maxDelta   \* the moveTowards feedback loop

callVars == <<fn, args, ret>>
angleVars == <<pc, angle_a, angle_b, angle_t, angle_b0, angle_ret>>
moveVars == <<mt_current, mt_target, mt_maxDelta>>

vars == <<callVars, angleVars, moveVars>>

----------------------------------------------------------------------------
(* Bounds of the model. *)

\* inputs lie within MaxOff of 0 and of every power of two
MaxOff == 3
\* t and length of pingPong / repeat, current and target of moveTowards
MaxT == 12
MaxLength == 5
MaxDeltaBound == 4
\* round: f ranges over the halves -MaxHalves/2 .. MaxHalves/2
MaxHalves == 13
\* lerpAngle: angles up to MaxTurns full turns either way
MaxTurns == 2
\* the feedback loop stops stepping once |current| exceeds this
MaxAbs == 20

----------------------------------------------------------------------------
(* 32-bit integer arithmetic of JavaScript's bitwise operators. *)

Abs(n) == IF n < 0 THEN -n ELSE n

\* 2^30 and the largest signed 32-bit integer 2^31 - 1
TwoTo30 == 2^30
MaxInt32 == TwoTo30 + (TwoTo30 - 1)

\* x >> n on a signed 32-bit integer: arithmetic shift, floor(x / 2^n)
Sar(x, n) == x \div (2^n)

\* x | y on two's complement integers
RECURSIVE BitOr(_, _)
BitOr(x, y) ==
    IF x = 0 THEN y
    ELSE IF y = 0 THEN x
    ELSE IF x = -1 \/ y = -1 THEN -1
    ELSE (IF x % 2 = 1 \/ y % 2 = 1 THEN 1 ELSE 0)
         + 2 * BitOr(x \div 2, y \div 2)

\* x & y on two's complement integers
RECURSIVE BitAnd(_, _)
BitAnd(x, y) ==
    IF x = 0 \/ y = 0 THEN 0
    ELSE IF x = -1 THEN y
    ELSE IF y = -1 THEN x
    ELSE (IF x % 2 = 1 /\ y % 2 = 1 THEN 1 ELSE 0)
         + 2 * BitAnd(x \div 2, y \div 2)

\* 2 * x wrapped to a signed 32-bit integer
Double32(x) ==
    IF x >= TwoTo30 THEN 2 * ((x - TwoTo30) - TwoTo30)
    ELSE IF x < -TwoTo30 THEN 2 * ((x + TwoTo30) + TwoTo30)
    ELSE 2 * x

\* x << n on a signed 32-bit integer, 0 <= n <= 31
RECURSIVE Shl(_, _)
Shl(x, n) == IF n = 0 THEN x ELSE Shl(Double32(x), n - 1)

\* x % m of JavaScript for m > 0: the remainder takes the sign of x
JsRem(x, m) == IF x >= 0 THEN x % m ELSE -((-x) % m)

\* Math.ceil(x / m) for integers x and m > 0
CeilDiv(x, m) == -((-x) \div m)

\* Math.floor(Math.log2(value)) for an integer value >= 1
RECURSIVE FloorLog2(_)
FloorLog2(value) == IF value <= 1 THEN 0 ELSE 1 + FloorLog2(value \div 2)

----------------------------------------------------------------------------
(* The functions of src/index.ts. *)

toInt(value) == Sar(value, 0)

\* the five OR-shift steps of nextPowerOfTwo, applied to value - 1
Smear(v) ==
    LET v1 == BitOr(v, Sar(v, 1))
        v2 == BitOr(v1, Sar(v1, 2))
        v4 == BitOr(v2, Sar(v2, 4))
        v8 == BitOr(v4, Sar(v4, 8))
    IN  BitOr(v8, Sar(v8, 16))

nextPowerOfTwo_NoDecrement(value) ==
    LET v == toInt(value)
    IN  IF v < 0 THEN 0 ELSE Smear(v) + 1

nextPowerOfTwo(value) ==
    LET v == toInt(value)
    IN  IF v < 0 THEN 0 ELSE Smear(v - 1) + 1

closestPowerOfTwo_StrictHalf(value) ==
    LET nextValue == nextPowerOfTwo(value)
    IN  IF nextValue - value > Sar(nextValue, 1)
        THEN Sar(nextValue, 1)
        ELSE nextValue

closestPowerOfTwo(value) ==
    LET nextValue == nextPowerOfTwo(value)
    IN  IF nextValue - value > Sar(nextValue, 2)
        THEN Sar(nextValue, 1)
        ELSE nextValue

\* Math.log2(0) is -Infinity, which << takes as a shift count of 0.  The
\* subtraction next - v is done on doubles and cannot wrap, so the test
\* next - v > next >> 2 is written next - (next >> 2) > v, which stays within
\* 32 bits when next is -2^31.
closestPowerOfTwoLong(value) ==
    LET v == toInt(value)
        count == IF v = 0 THEN 0 ELSE FloorLog2(v)
        next == Shl(2, count)
    IN  IF v < 0 THEN 0
        ELSE IF next - Sar(next, 2) > v
        THEN Sar(next, 1)
        ELSE next

isPowerOfTwo_Or(value) ==
    LET v == toInt(value)
    IN  BitOr(v, v - 1) = 0

isPowerOfTwo(value) ==
    LET v == toInt(value)
    IN  BitAnd(v, v - 1) = 0

clamp01(value) == IF value < 0 THEN 0 ELSE IF value > 1 THEN 1 ELSE value

lerp(a, b, t) == (b - a) * clamp01(t) + a

moveTowards(current, target, maxDelta) ==
    IF /\ maxDelta > 0
       /\ \/ (target < current /\ current - maxDelta < target)
          \/ (target > current /\ current + maxDelta > target)
    THEN target
    ELSE IF current > target THEN current - maxDelta
    ELSE current + maxDelta

pingPong_NoMirror(t, length) ==
    LET mod == JsRem(t, length)
    IN  IF JsRem(CeilDiv(t, length), 2) = 0
        THEN (IF mod = 0 THEN 0 ELSE length - mod)
        ELSE (IF mod = 0 THEN length ELSE mod)

pingPong(t, length) ==
    LET t1 == IF t < 0 THEN -t ELSE t
        mod == JsRem(t1, length)
    IN  IF JsRem(CeilDiv(t1, length), 2) = 0
        THEN (IF mod = 0 THEN 0 ELSE length - mod)
        ELSE (IF mod = 0 THEN length ELSE mod)

repeat(t, length) ==
    IF t > 0 THEN JsRem(t, length) ELSE length + JsRem(t, length)

\* 0.5, in halves
IS_INTEGER == 1

\* Math.ceil(f) and Math.round(f) = floor(f + 0.5), in halves
MathCeil(f) == 2 * CeilDiv(f, 2)
MathRound(f) == 2 * ((f + 1) \div 2)

\* ceilVal % 2 is the remainder of the number ceilVal / 2 by the number 2:
\* in halves, of ceilVal by 4
round_HalfToOdd(f) ==
    LET ceilVal == f + IS_INTEGER
    IN  IF ceilVal = MathCeil(f)
        THEN (IF JsRem(ceilVal, 4) = 0 THEN f - IS_INTEGER ELSE f + IS_INTEGER)
        ELSE MathRound(f)

round(f) ==
    LET ceilVal == f + IS_INTEGER
    IN  IF ceilVal = MathCeil(f)
        THEN (IF JsRem(ceilVal, 4) = 0 THEN f + IS_INTEGER ELSE f - IS_INTEGER)
        ELSE MathRound(f)

----------------------------------------------------------------------------
(* Inputs. *)

Exps == 0 .. 30
Pow2Set == {2^n : n \in Exps}

\* integers within MaxOff of 0, of a power of two below 2^30, of the midpoint
\* 3 * 2^n of two powers of two, or just below 2^30
NearPow2 ==
    (-MaxOff .. MaxOff)
    \cup {p + d : p \in Pow2Set \ {TwoTo30}, d \in -MaxOff .. MaxOff}
    \cup {3 * p + d : p \in {2^n : n \in 0 .. 28}, d \in -MaxOff .. MaxOff}
    \cup {TwoTo30 - d : d \in 0 .. MaxOff}

\* ... up to 2^30, where nextPowerOfTwo still fits a signed 32-bit integer
UpTo30 == NearPow2

\* ... up to 2^31 - 1
UpTo31 == NearPow2 \cup {TwoTo30 + d : d \in 1 .. MaxOff}
                   \cup {MaxInt32 - d : d \in 0 .. MaxOff}

----------------------------------------------------------------------------
(* The calls. *)

\* A call is made from the idle state; the caller then drops the result.

CallNextPowerOfTwo ==
    \E value \in UpTo30 :
        /\ fn = "none"
        /\ fn' = "nextPowerOfTwo"
        /\ args' = <<value>>
        /\ ret' = nextPowerOfTwo(value)
        /\ UNCHANGED <<angleVars, moveVars>>

CallClosestPowerOfTwo ==
    \E value \in UpTo30 :
        /\ fn = "none"
        /\ fn' = "closestPowerOfTwo"
        /\ args' = <<value>>
        /\ ret' = closestPowerOfTwo(value)
        /\ UNCHANGED <<angleVars, moveVars>>

CallClosestPowerOfTwoLong ==
    \E value \in UpTo31 :
        /\ fn = "none"
        /\ fn' = "closestPowerOfTwoLong"
        /\ args' = <<value>>
        /\ ret' = closestPowerOfTwoLong(value)
        /\ UNCHANGED <<angleVars, moveVars>>

CallIsPowerOfTwo ==
    \E value \in UpTo31 :
        /\ fn = "none"
        /\ fn' = "isPowerOfTwo"
        /\ args' = <<value>>
        /\ ret' = isPowerOfTwo(value)
        /\ UNCHANGED <<angleVars, moveVars>>

CallMoveTowards ==
    \E current \in -MaxT .. MaxT, target \in -MaxT .. MaxT,
       maxDelta \in -1 .. MaxDeltaBound :
        /\ fn = "none"
        /\ fn' = "moveTowards"
        /\ args' = <<current, target, maxDelta>>
        /\ ret' = moveTowards(current, target, maxDelta)
        /\ UNCHANGED <<angleVars, moveVars>>

CallPingPong ==
    \E t \in -MaxT .. MaxT, length \in 1 .. MaxLength :
        /\ fn = "none"
        /\ fn' = "pingPong"
        /\ args' = <<t, length>>
        /\ ret' = pingPong(t, length)
        /\ UNCHANGED <<angleVars, moveVars>>

CallRepeat ==
    \E t \in -MaxT .. MaxT, length \in 1 .. MaxLength :
        /\ fn = "none"
        /\ fn' = "repeat"
        /\ args' = <<t, length>>
        /\ ret' = repeat(t, length)
        /\ UNCHANGED <<angleVars, moveVars>>

\* the argument f is given in halves
CallRound ==
    \E f \in -MaxHalves .. MaxHalves :
        /\ fn = "none"
        /\ fn' = "round"
        /\ args' = <<f>>
        /\ ret' = round(f)
        /\ UNCHANGED <<angleVars, moveVars>>

Discard ==
    /\ fn # "none"
    /\ fn' = "none"
    /\ args' = <<>>
    /\ ret' = 0
    /\ UNCHANGED <<angleVars, moveVars>>

Init ==
    /\ fn = "none"
    /\ args = <<>>
    /\ ret = 0
    /\ pc = "idle"
    /\ angle_a = 0 /\ angle_b = 0 /\ angle_t = 0 /\ angle_b0 = 0 /\ angle_ret = 0
    /\ mt_current = 0 /\ mt_target = 0 /\ mt_maxDelta = 0

Next ==
    \/ CallNextPowerOfTwo
    \/ CallClosestPowerOfTwo
    \/ CallClosestPowerOfTwoLong
    \/ CallIsPowerOfTwo
    \/ CallMoveTowards
    \/ CallPingPong
    \/ CallRepeat
    \/ CallRound
    \/ Discard

Spec == Init /\ [][Next]_vars

----------------------------------------------------------------------------
(* lerpAngle, one step per loop iteration. *)

FULL_ANGLE == 360
STRAIGHT_ANGLE == 180

\* angles within 1 of a multiple of a quarter turn
Angles ==
    {k * (STRAIGHT_ANGLE \div 2) + d : k \in -4 * MaxTurns .. 4 * MaxTurns, d \in -1 .. 1}

InitAngle ==
    /\ fn = "none" /\ args = <<>> /\ ret = 0
    /\ pc = "first"
    /\ angle_a \in Angles
    /\ angle_b \in Angles
    /\ angle_b0 = angle_b
    /\ angle_t \in -1 .. 2
    /\ angle_ret = 0
    /\ mt_current = 0 /\ mt_target = 0 /\ mt_maxDelta = 0

\* while (a > b + STRAIGHT_ANGLE)
FirstGuard_Off(a, b) == a > b + FULL_ANGLE
FirstGuard(a, b) == a > b + STRAIGHT_ANGLE

\* while (b > a + STRAIGHT_ANGLE)
SecondGuard(a, b) == b > a + STRAIGHT_ANGLE

FirstLoop ==
    /\ pc = "first"
    /\ IF FirstGuard(angle_a, angle_b)
       THEN angle_b' = angle_b + FULL_ANGLE /\ pc' = "first"
       ELSE angle_b' = angle_b /\ pc' = "second"
    /\ UNCHANGED <<angle_a, angle_t, angle_b0, angle_ret, callVars, moveVars>>

SecondLoop ==
    /\ pc = "second"
    /\ IF SecondGuard(angle_a, angle_b)
       THEN angle_b' = angle_b - FULL_ANGLE /\ pc' = "second"
       ELSE angle_b' = angle_b /\ pc' = "lerp"
    /\ UNCHANGED <<angle_a, angle_t, angle_b0, angle_ret, callVars, moveVars>>

ReturnLerp ==
    /\ pc = "lerp"
    /\ angle_ret' = lerp(angle_a, angle_b, angle_t)
    /\ pc' = "done"
    /\ UNCHANGED <<angle_a, angle_b, angle_t, angle_b0, callVars, moveVars>>

NextAngle ==
    \/ FirstLoop
    \/ SecondLoop
    \/ ReturnLerp

\* a call that has started runs on: nothing suspends it
SpecAngle == InitAngle /\ [][NextAngle]_vars /\ WF_vars(NextAngle)

----------------------------------------------------------------------------
(* A caller that feeds moveTowards its own result, frame after frame. *)

InitMove ==
    /\ fn = "none" /\ args = <<>> /\ ret = 0
    /\ pc = "idle"
    /\ angle_a = 0 /\ angle_b = 0 /\ angle_t = 0 /\ angle_b0 = 0 /\ angle_ret = 0
    /\ mt_current \in -MaxT .. MaxT
    /\ mt_target \in -MaxT .. MaxT
    /\ mt_maxDelta \in -1 .. MaxDeltaBound

Frame ==
    /\ Abs(mt_current) <= MaxAbs
    /\ mt_current' = moveTowards(mt_current, mt_target, mt_maxDelta)
    /\ UNCHANGED <<mt_target, mt_maxDelta, callVars, angleVars>>

NextMove == Frame

\* the caller runs every frame
SpecMove == InitMove /\ [][NextMove]_vars /\ WF_vars(Frame)

----------------------------------------------------------------------------
(* The properties. *)

\* p is the smallest power of two that is >= v
SmallestPow2AtLeast(p, v) ==
    /\ p \in Pow2Set
    /\ p >= v
    /\ \A q \in Pow2Set : q >= v => p <= q

\* C1 as stated: for every value with 0 <= value <= 2^30, nextPowerOfTwo(value)
\* is the smallest power of two that is >= value.
C1_SmallestPowerFromZero ==
    (fn = "nextPowerOfTwo" /\ 0 <= args[1] /\ args[1] <= TwoTo30)
        => SmallestPow2AtLeast(ret, args[1])

\* C1, amended: for every value with 1 <= value <= 2^30, nextPowerOfTwo(value)
\* is the smallest power of two that is >= value; nextPowerOfTwo(0) is 0.
C1_SmallestPowerFromOne ==
    fn = "nextPowerOfTwo" =>
        /\ (1 <= args[1] /\ args[1] <= TwoTo30) => SmallestPow2AtLeast(ret, args[1])
        /\ args[1] = 0 => ret = 0

C1_Witness ==
    fn = "nextPowerOfTwo" /\ args[1] = 2^29 + 1 /\ ret = TwoTo30

\* C2: with maxDelta > 0 and |target - current| <= maxDelta,
\* moveTowards(current, target, maxDelta) is target.
C2_SnapsToTarget ==
    (fn = "moveTowards" /\ args[3] > 0 /\ Abs(args[2] - args[1]) <= args[3])
        => ret = args[2]

\* C3: for length >= 1, repeat(t, length) lies in [0, length) and is congruent
\* to t modulo length.
C3_RepeatInRange ==
    (fn = "repeat" /\ args[2] >= 1) =>
        /\ 0 <= ret
        /\ ret < args[2]
        /\ (ret - args[1]) % args[2] = 0

\* C4: for length >= 1, pingPong(t, length) is the triangle wave of |t|:
\* with m = |t| mod 2 * length it is m when m <= length and 2 * length - m
\* otherwise; it lies in [0, length] and pingPong(-t, length) is the same.
C4_PingPongTriangle ==
    (fn = "pingPong" /\ args[2] >= 1) =>
        LET length == args[2]
            m == Abs(args[1]) % (2 * length)
        IN  /\ ret = IF m <= length THEN m ELSE 2 * length - m
            /\ 0 <= ret /\ ret <= length
            /\ pingPong(-args[1], length) = ret

C4_Witness ==
    fn = "pingPong" /\ args = <<-7, 5>> /\ ret = 3

\* C5: for 1 <= value <= 2^30, closestPowerOfTwo(value) is a power of two, no
\* power of two is strictly nearer to value, a tie goes to the larger one, and
\* it is next >> 1 exactly when next - value > next >> 2, next otherwise,
\* where next = nextPowerOfTwo(value).
C5_ClosestPowerOfTwo ==
    (fn = "closestPowerOfTwo" /\ 1 <= args[1] /\ args[1] <= TwoTo30) =>
        LET value == args[1]
            next == nextPowerOfTwo(value)
        IN  /\ ret \in Pow2Set
            /\ \A q \in Pow2Set :
                  /\ Abs(q - value) >= Abs(ret - value)
                  /\ Abs(q - value) = Abs(ret - value) => q <= ret
            /\ (ret = Sar(next, 1) /\ ret # next) <=> (next - value > Sar(next, 2))
            /\ ret \in {Sar(next, 1), next}

\* 3 * 2^27 is as far from 2^28 as from 2^29: the tie goes to 2^29
C5_Witness ==
    fn = "closestPowerOfTwo" /\ args[1] = 3 * 2^27 /\ ret = 2^29

\* C6: for f a multiple of 0.5, round(f) is an integer within 0.5 of f, the
\* even neighbour when f is n + 0.5, and f itself when f is an integer.
\* (f and round(f) in halves: an integer is even, an even integer is 0 mod 4.)
C6_RoundHalfToEven ==
    fn = "round" =>
        LET f == args[1]
        IN  /\ ret % 2 = 0
            /\ Abs(ret - f) <= 1
            /\ f % 2 = 1 => ret % 4 = 0
            /\ f % 2 = 0 => ret = f

\* round(-2.5) = -2
C6_Witness ==
    fn = "round" /\ args[1] = -5 /\ ret = -4

\* C7: for 0 <= value < 2^31, isPowerOfTwo(value) is true exactly when value
\* is 0 or a power of two.
C7_IsPowerOfTwo ==
    (fn = "isPowerOfTwo" /\ 0 <= args[1] /\ args[1] <= MaxInt32) =>
        (ret <=> (args[1] = 0 \/ args[1] \in Pow2Set))

C7_Witness ==
    fn = "isPowerOfTwo" /\ args[1] = TwoTo30 /\ ret = TRUE

\* what lerpAngle has established when it returns
AngleDone ==
    /\ Abs(angle_a - angle_b) <= STRAIGHT_ANGLE
    /\ (angle_b - angle_b0) % FULL_ANGLE = 0
    /\ angle_t = 0 => angle_ret = angle_a
    /\ angle_t = 1 => angle_ret = angle_b

\* C8: the two loops of lerpAngle terminate; the b passed to lerp is within
\* 180 of a and differs from the b passed in by a multiple of 360;
\* lerpAngle(a, b, 0) is a and lerpAngle(a, b, 1) is that adjusted b.
C8_LerpAngleTerminates ==
    /\ <>(pc = "done")
    /\ [](pc = "done" => AngleDone)

C8_Witness ==
    /\ pc = "done"
    /\ angle_a = 359 /\ angle_b0 = -361 /\ angle_b = 359
    /\ angle_t = 1 /\ angle_ret = 359

\* C9: with maxDelta > 0, feeding moveTowards its own result eventually makes
\* current equal to target, and from then on every step leaves it there.
C9_ReachesTargetAndStays ==
    /\ <>(mt_maxDelta > 0 => mt_current = mt_target)
    /\ [][(mt_maxDelta > 0 /\ mt_current = mt_target)
             => mt_current' = mt_target]_vars

\* C10: for 0 <= value < 2^31, closestPowerOfTwoLong(value) is
\* closestPowerOfTwo(value).  (Compared up to 2^30: above it nextPowerOfTwo is
\* 2^31, which no signed 32-bit integer holds.)
C10_LongAgrees ==
    (fn = "closestPowerOfTwoLong" /\ 0 <= args[1] /\ args[1] <= TwoTo30)
        => ret = closestPowerOfTwo(args[1])

====
